---- MODULE Spec2Model ----
(***************************************************************************)
(* A model of check_commits.py: the commit-message validator               *)
(* (validate_commit_message) and the orchestration around it               *)
(* (fetch_commits, process_commits, main).                                 *)
(*                                                                         *)
(* A Python str is a sequence of one-character strings; a list is a        *)
(* sequence.  An error message built by an f-string is the record of its   *)
(* literal (placeholders kept as written) and the formatted values.        *)
(***************************************************************************)
EXTENDS Integers, Sequences, FiniteSets, TLC

VARIABLES
    commit,            \* the commit handed to validate_commit_message
    sub_char_limit,    \* --sub-limit
    body_char_limit,   \* --body-limit
    check_blank_line,  \* --check-blank-line (a str)
    lines,             \* validate_commit_message: message.splitlines()
    result,            \* what validate_commit_message produced, or NotCalled
    pc,                \* main: the position of the process
    token,             \* os.getenv("GITHUB_TOKEN"); "" when unset or empty
    summary_path,      \* os.getenv("GITHUB_STEP_SUMMARY"); "" when unset
    pr_commits,        \* the commits the API lists for the pull request
    gets,              \* the requests.get calls made so far (their headers)
    resps,             \* the status codes of the responses, in order
    commits,           \* the list fetch_commits returned to main
    idx,               \* process_commits: the position of the for loop
    failed_count,      \* process_commits: failed_count
    stdout,            \* the lines printed
    comment_calls,     \* the add_commit_comment calls made
    status_calls,      \* the set_commit_status calls made
    posts,             \* the requests.post calls made
    summary,           \* the lines appended to the step summary file
    returned,          \* what process_commits returned to main, or NoValue
    exit_code          \* the exit code of the process, or NoValue

vars == << commit, sub_char_limit, body_char_limit, check_blank_line, lines,
           result, pc, token, summary_path, pr_commits, gets, resps, commits, idx,
           failed_count, stdout, comment_calls, status_calls, posts, summary,
           returned, exit_code >>

----------------------------------------------------------------------------
(* Bounds of the model.                                                    *)

\* The longest message drawn for the validator, in lines.
MaxLines == 5

\* The small subject/body limit tried beside the defaults.
SmallLimit == 2

\* The longest pull request drawn, in commits.
MaxCommits == 2

(* Program constants.                                                      *)

\* parser.add_argument("--sub-limit", type=int, default=50)
DefaultSubLimit == 50

\* parser.add_argument("--body-limit", type=int, default=72)
DefaultBodyLimit == 72

----------------------------------------------------------------------------
(* Python's str and list operations, as far as the program uses them.      *)

\* str.isspace of one character, over the characters the model draws.
IsSpace(c) == c \in {" ", "\t", "\n", "\r"}

UpperToLower ==
    [ A |-> "a", B |-> "b", C |-> "c", D |-> "d", E |-> "e", F |-> "f",
      G |-> "g", H |-> "h", I |-> "i", J |-> "j", K |-> "k", L |-> "l",
      M |-> "m", N |-> "n", O |-> "o", P |-> "p", Q |-> "q", R |-> "r",
      S |-> "s", T |-> "t", U |-> "u", V |-> "v", W |-> "w", X |-> "x",
      Y |-> "y", Z |-> "z" ]

UpperCase == DOMAIN UpperToLower

\* str.lower()
Lower(s) ==
    [ i \in 1..Len(s) |->
        IF s[i] \in UpperCase THEN UpperToLower[s[i]] ELSE s[i] ]

\* str.lstrip() and str.rstrip()
RECURSIVE LStrip(_)
LStrip(s) ==
    IF s # << >> /\ IsSpace(Head(s)) THEN LStrip(Tail(s)) ELSE s

RECURSIVE RStrip(_)
RStrip(s) ==
    IF s # << >> /\ IsSpace(s[Len(s)])
    THEN RStrip(SubSeq(s, 1, Len(s) - 1)) ELSE s

\* str.strip()
Strip(s) == RStrip(LStrip(s))

\* str.startswith(p)
StartsWith(s, p) == Len(s) >= Len(p) /\ SubSeq(s, 1, Len(p)) = p

\* p in s
Contains(s, p) ==
    \E i \in 0..(Len(s) - Len(p)) : SubSeq(s, i + 1, i + Len(p)) = p

\* str.splitlines(), over texts whose only line boundary is "\n": the text is
\* cut at every "\n", and a text that ends with one has no empty last line.
RECURSIVE SplitLines(_)
SplitLines(text) ==
    IF text = << >> THEN << >>
    ELSE LET nl == { i \in 1..Len(text) : text[i] = "\n" }
         IN  IF nl = {} THEN << text >>
             ELSE LET k == CHOOSE i \in nl : \A j \in nl : i <= j
                  IN  << SubSeq(text, 1, k - 1) >>
                        \o SplitLines(SubSeq(text, k + 1, Len(text)))

\* lines[k:]
SliceFrom(ls, k) == SubSeq(ls, k + 1, Len(ls))

\* str(n) of an int n >= 0, as the f-strings format it.
RECURSIVE Dec(_)
Dec(n) ==
    LET digit == << "0", "1", "2", "3", "4", "5", "6", "7", "8", "9" >>
    IN  IF n < 10 THEN << digit[n + 1] >>
        ELSE Dec(n \div 10) \o << digit[(n % 10) + 1] >>

----------------------------------------------------------------------------
(* validate_commit_message                                                 *)

\* The literal "signed-off-by".
SignedOffBy ==
    << "s", "i", "g", "n", "e", "d", "-", "o", "f", "f", "-", "b", "y" >>

\* The literal "true".
TrueStr == << "t", "r", "u", "e" >>

\* An error message: the literal as written and the values formatted into it.
Err(fmt, args) == [ fmt |-> fmt, args |-> args ]

MissingSubject == Err("Commit message is missing subject!", << >>)
SubjectExceeds(limit) ==
    Err("Subject exceeds {sub_char_limit} characters!", << Dec(limit) >>)
SubBodySeparation ==
    Err("Subject and body must be separated by a blank line", << >>)
BodySignSeparation ==
    Err("Body and Signed-off-by must be separated by a blank line", << >>)
MissingBody == Err("Commit message is missing a body!", << >>)
LineExceeds(limit, line) ==
    Err("Line exceeds {body_char_limit} characters: {line}",
        << Dec(limit), line >>)

\* subject = lines[0] if n >= 1 else ""
Subject(ls) == IF Len(ls) >= 1 THEN ls[1] ELSE << >>

\* Mutant of BodyFilter: the lines that start with "signed-off-by" are kept.
RECURSIVE BodyFilterKeepsTrailer(_)
BodyFilterKeepsTrailer(ls) ==
    IF ls = << >> THEN << >>
    ELSE (IF Strip(Head(ls)) # << >> THEN << Strip(Head(ls)) >> ELSE << >>)
         \o BodyFilterKeepsTrailer(Tail(ls))

\* [line.strip() for line in ls
\*    if line.strip() and not line.lower().startswith("signed-off-by")]
RECURSIVE BodyFilter(_)
BodyFilter(ls) ==
    IF ls = << >> THEN << >>
    ELSE LET line == Head(ls)
         IN  (IF Strip(line) # << >> /\ ~StartsWith(Lower(line), SignedOffBy)
              THEN << Strip(line) >> ELSE << >>)
             \o BodyFilter(Tail(ls))

\* check_blank_line.lower() == "true"
CheckBlank(cbl) == Lower(cbl) = TrueStr

\* signed_off = lines[-1] if "signed-off-by" in lines[-1].lower() else ""
\* (lines is not empty here: lines[-1] of an empty list raises)
SignedOff(ls) ==
    IF Contains(Lower(ls[Len(ls)]), SignedOffBy)
    THEN ls[Len(ls)] ELSE << >>

\* Mutant of MissingSubBodyLine: line 1 is compared without strip().
MissingSubBodyLineUnstripped(ls, cbl) ==
    CheckBlank(cbl) /\ Len(ls) > 1 /\ ls[2] # << >>

\* missing_sub_body_line
MissingSubBodyLine(ls, cbl) ==
    CheckBlank(cbl) /\ Len(ls) > 1 /\ Strip(ls[2]) # << >>

\* Mutant of Body: under check-blank-line the body always starts at line 2.
BodyFromLine2(ls, cbl) ==
    IF CheckBlank(cbl)
    THEN BodyFilter(SliceFrom(ls, 2))
    ELSE BodyFilter(SliceFrom(ls, 1))

\* body, as it stands when the errors are collected: the first list, or,
\* under check-blank-line with line 1 blank or absent, the one recomputed
\* from line 2 on
Body(ls, cbl) ==
    IF CheckBlank(cbl) /\ ~MissingSubBodyLine(ls, cbl)
    THEN BodyFilter(SliceFrom(ls, 2))
    ELSE BodyFilter(SliceFrom(ls, 1))

\* missing_body_sign_line
\* (len(lines) >= 2 here: lines[-2] of a one-element list raises)
MissingBodySignLine(ls, cbl) ==
    CheckBlank(cbl) /\ SignedOff(ls) # << >>
        /\ Strip(ls[Len(ls) - 1]) # << >>

\* The list index that is out of range, if any: lines[-1] of an empty list,
\* lines[-2] of a list of one line (evaluated only when check_blank_line is
\* true and signed_off is not empty).
IndexOutOfRange(ls, cbl) ==
    \/ Len(ls) = 0
    \/ Len(ls) = 1 /\ CheckBlank(cbl) /\ SignedOff(ls) # << >>

\* Mutant of LineErrors: a line as long as the limit is an error too.
RECURSIVE LineErrorsAtLimit(_, _)
LineErrorsAtLimit(body, limit) ==
    IF body = << >> THEN << >>
    ELSE (IF Len(Head(body)) >= limit
          THEN << LineExceeds(limit, Head(body)) >> ELSE << >>)
         \o LineErrorsAtLimit(Tail(body), limit)

\* for line in body: if len(line) > body_char_limit: errors.append(...)
RECURSIVE LineErrors(_, _)
LineErrors(body, limit) ==
    IF body = << >> THEN << >>
    ELSE (IF Len(Head(body)) > limit
          THEN << LineExceeds(limit, Head(body)) >> ELSE << >>)
         \o LineErrors(Tail(body), limit)

\* Mutant of Errors: the subject's length is checked after the separations.
ErrorsSubjectLimitLate(ls, sub_limit, body_limit, cbl) ==
    LET subject == Subject(ls)
        body    == Body(ls, cbl)
    IN  (IF Len(Strip(subject)) = 0 THEN << MissingSubject >> ELSE << >>)
        \o (IF CheckBlank(cbl) /\ MissingSubBodyLine(ls, cbl)
               /\ subject # << >> /\ body # << >>
            THEN << SubBodySeparation >> ELSE << >>)
        \o (IF CheckBlank(cbl) /\ MissingBodySignLine(ls, cbl)
               /\ body # << >> /\ SignedOff(ls) # << >>
            THEN << BodySignSeparation >> ELSE << >>)
        \o (IF Len(subject) > sub_limit
            THEN << SubjectExceeds(sub_limit) >> ELSE << >>)
        \o (IF Len(body) = 0 THEN << MissingBody >> ELSE << >>)
        \o LineErrors(body, body_limit)

\* The errors list, in the order of the appends.
Errors(ls, sub_limit, body_limit, cbl) ==
    LET subject == Subject(ls)
        body    == Body(ls, cbl)
    IN  (IF Len(Strip(subject)) = 0 THEN << MissingSubject >> ELSE << >>)
        \o (IF Len(subject) > sub_limit
            THEN << SubjectExceeds(sub_limit) >> ELSE << >>)
        \o (IF CheckBlank(cbl) /\ MissingSubBodyLine(ls, cbl)
               /\ subject # << >> /\ body # << >>
            THEN << SubBodySeparation >> ELSE << >>)
        \o (IF CheckBlank(cbl) /\ MissingBodySignLine(ls, cbl)
               /\ body # << >> /\ SignedOff(ls) # << >>
            THEN << BodySignSeparation >> ELSE << >>)
        \o (IF Len(body) = 0 THEN << MissingBody >> ELSE << >>)
        \o LineErrors(body, body_limit)

\* validate_commit_message from the split lines on: the pair it returns, or
\* the exception it raises.
ValidateLines(sha, ls, sub_limit, body_limit, cbl) ==
    IF IndexOutOfRange(ls, cbl)
    THEN [ raised |-> "IndexError", sha |-> "", errors |-> << >> ]
    ELSE [ raised |-> "",
           sha    |-> sha,
           errors |-> Errors(ls, sub_limit, body_limit, cbl) ]

\* The outcome of validate_commit_message(c, ...).
ValidateCommitMessage(c, sub_limit, body_limit, cbl) ==
    ValidateLines(c.sha, SplitLines(c.message), sub_limit, body_limit, cbl)

----------------------------------------------------------------------------
(* The inputs drawn.                                                       *)

\* A subject one character longer than the default subject limit.
LongLine == [ i \in 1..(DefaultSubLimit + 1) |-> "a" ]

\* The lines the messages are made of: an empty line, a
\* blank one, a line with blanks around two characters, a Signed-off-by
\* trailer, and a line that holds "signed-off-by" after a blank.
LineDict ==
    { << >>,
      << " " >>,
      << " ", "a", "a", " " >>,
      << "S" >> \o Tail(SignedOffBy),
      << " " >> \o SignedOffBy }

\* "\n".join(ls)
RECURSIVE JoinLines(_)
JoinLines(ls) ==
    IF ls = << >> THEN << >>
    ELSE IF Len(ls) = 1 THEN ls[1]
    ELSE ls[1] \o << "\n" >> \o JoinLines(Tail(ls))

\* The message texts: the lines of every list of up to MaxLines lines,
\* joined.
Messages ==
    UNION { { JoinLines(ls) : ls \in [1..n -> LineDict] } : n \in 0..MaxLines }

\* The sha of a commit is a hash of its content: two values stand in for
\* it, by the parity of the message's length.
ShaOf(message) == IF Len(message) % 2 = 0 THEN "abc123" ELSE "def456"

\* The commits handed to the validator.
Commits == { [ sha |-> ShaOf(m), message |-> m ] : m \in Messages }

SubLimits == { SmallLimit, DefaultSubLimit }
BodyLimits == { SmallLimit, DefaultBodyLimit }
BlankLineSettings ==
    { TrueStr, << "T" >> \o Tail(TrueStr), << "f", "a", "l", "s", "e" >> }

NotCalled == [ raised |-> "not called", sha |-> "", errors |-> << >> ]
NoCommit == [ sha |-> "", message |-> << >> ]
NoValue == -1

\* The variables of main, at rest while the validator is checked alone.
MainIdle ==
    /\ pc = "idle"
    /\ token = ""
    /\ summary_path = ""
    /\ pr_commits = << >>
    /\ gets = << >>
    /\ resps = << >>
    /\ commits = << >>
    /\ idx = 1
    /\ failed_count = 0
    /\ stdout = << >>
    /\ comment_calls = << >>
    /\ status_calls = << >>
    /\ posts = << >>
    /\ summary = << >>
    /\ returned = NoValue
    /\ exit_code = NoValue

InitV ==
    /\ commit \in Commits
    /\ sub_char_limit \in SubLimits
    /\ body_char_limit \in BodyLimits
    /\ check_blank_line \in BlankLineSettings
    /\ lines = << >>
    /\ result = NotCalled
    /\ MainIdle

\* One call of validate_commit_message.
Validate ==
    /\ result = NotCalled
    /\ pc = "idle"
    /\ lines' = SplitLines(commit.message)
    /\ result' = ValidateLines(commit.sha, lines', sub_char_limit,
                                body_char_limit, check_blank_line)
    /\ UNCHANGED << commit, sub_char_limit, body_char_limit,
                    check_blank_line >>
    /\ UNCHANGED << pc, token, summary_path, pr_commits, gets, resps, commits,
                    idx, failed_count, stdout, comment_calls, status_calls,
                    posts, summary, returned, exit_code >>

NextV == Validate

SpecV == InitV /\ [][NextV]_vars

----------------------------------------------------------------------------
(* main: fetch_commits, process_commits and the exit.                      *)

\* The status codes the API answers with.
Statuses == { 200, 401, 403, 404, 500 }

\* Mutant of RetryStatuses: a server error is retried with the token too.
RetryStatusesWith500 == { 401, 403, 404, 500 }

\* if resp.status_code in (401, 403, 404)
RetryStatuses == { 401, 403, 404 }

\* The commits pull requests are made of: a well-formed message, a long
\* subject with no blank line after it, the empty message, and a message
\* that is a Signed-off-by line alone.
CommitPool ==
    { [ sha |-> "abc123",
        message |-> JoinLines(<< << "a", "a" >>, << >>, << "a", "a" >>,
                                 << >>, << "S" >> \o Tail(SignedOffBy) >>) ],
      [ sha |-> "def456",
        message |-> JoinLines(<< LongLine, << "a", "a" >>, << >>,
                                 << "S" >> \o Tail(SignedOffBy) >>) ],
      [ sha |-> "0e0e0e", message |-> << >> ],
      [ sha |-> "51f51f", message |-> << "S" >> \o Tail(SignedOffBy) ] }

PullRequests == UNION { [1..n -> CommitPool] : n \in 0..MaxCommits }

\* headers = {"Accept": ...}, and headers["Authorization"] once it is set
Headers(authorization) ==
    [ Accept |-> "application/vnd.github.v3+json",
      Authorization |-> authorization ]

\* f"Bearer {token}"
Bearer(t) == << "Bearer", t >>
NoAuthorization == << >>

\* A line printed or written: the literal and the values formatted into it.
\* The literals' two emoji are written by their code points, [U+2705] (the
\* check mark) and [U+274C] (the cross).
Line(fmt, args) == [ fmt |-> fmt, args |-> args ]

Init ==
    /\ pc = "fetch"
    /\ token \in { "", "fake_token" }
    /\ summary_path \in { "", "summary.md" }
    /\ pr_commits \in PullRequests
    /\ sub_char_limit \in SubLimits
    /\ body_char_limit \in BodyLimits
    /\ check_blank_line \in BlankLineSettings
    /\ commit = NoCommit
    /\ lines = << >>
    /\ result = NotCalled
    /\ gets = << >>
    /\ resps = << >>
    /\ commits = << >>
    /\ idx = 1
    /\ failed_count = 0
    /\ stdout = << >>
    /\ comment_calls = << >>
    /\ status_calls = << >>
    /\ posts = << >>
    /\ summary = << >>
    /\ returned = NoValue
    /\ exit_code = NoValue

\* resp.status_code of the last response
LastStatus == resps[Len(resps)]

\* fetch_commits: the first requests.get, with the Accept header alone.
FetchFirstGet ==
    /\ pc = "fetch"
    /\ \E status \in Statuses :
         /\ gets' = Append(gets, Headers(NoAuthorization))
         /\ resps' = Append(resps, status)
         /\ pc' = IF status \in RetryStatuses THEN "fetch_retry"
                                              ELSE "fetch_check"
    /\ UNCHANGED << commit, sub_char_limit, body_char_limit, check_blank_line,
                    lines, result, token, summary_path, pr_commits, commits, idx,
                    failed_count, stdout, comment_calls, status_calls, posts,
                    summary, returned, exit_code >>

\* fetch_commits: 401, 403 or 404 and no token: the error and sys.exit(1).
FetchNoToken ==
    /\ pc = "fetch_retry"
    /\ token = ""
    /\ stdout' = Append(stdout,
         Line("::error::Please set GITHUB_TOKEN as an environment variable to access private repositories!",
              << >>))
    /\ exit_code' = 1
    /\ pc' = "done"
    /\ UNCHANGED << commit, sub_char_limit, body_char_limit, check_blank_line,
                    lines, result, token, summary_path, pr_commits, gets, resps,
                    commits, idx, failed_count, comment_calls, status_calls,
                    posts, summary, returned >>

\* fetch_commits: 401, 403 or 404 and a token: the second requests.get, with
\* the token.
FetchSecondGet ==
    /\ pc = "fetch_retry"
    /\ token # ""
    /\ \E status \in Statuses :
         /\ gets' = Append(gets, Headers(Bearer(token)))
         /\ resps' = Append(resps, status)
    /\ pc' = "fetch_check"
    /\ UNCHANGED << commit, sub_char_limit, body_char_limit, check_blank_line,
                    lines, result, token, summary_path, pr_commits, commits, idx,
                    failed_count, stdout, comment_calls, status_calls, posts,
                    summary, returned, exit_code >>

\* fetch_commits: a last status other than 200: the error and sys.exit(1).
FetchFail ==
    /\ pc = "fetch_check"
    /\ LastStatus # 200
    /\ stdout' = Append(stdout,
         Line("::error::Failed to fetch PR commits: {resp.status_code} {resp.text[:300]}",
              << LastStatus >>))
    /\ exit_code' = 1
    /\ pc' = "done"
    /\ UNCHANGED << commit, sub_char_limit, body_char_limit, check_blank_line,
                    lines, result, token, summary_path, pr_commits, gets, resps,
                    commits, idx, failed_count, comment_calls, status_calls,
                    posts, summary, returned >>

\* fetch_commits: return resp.json(); main calls process_commits with it.
FetchReturn ==
    /\ pc = "fetch_check"
    /\ LastStatus = 200
    /\ commits' = pr_commits
    /\ idx' = 1
    /\ failed_count' = 0
    /\ pc' = "process"
    /\ UNCHANGED << commit, sub_char_limit, body_char_limit, check_blank_line,
                    lines, result, token, summary_path, pr_commits, gets, resps,
                    stdout, comment_calls, status_calls, posts, summary,
                    returned, exit_code >>

\* add_commit_comment(repo, sha, message): the POST it makes, if any.
AddCommitComment(sha, message) ==
    IF token = "" THEN << >>
    ELSE << [ url  |-> << "comments", sha >>,
              auth |-> Bearer(token),
              json |-> [ body |-> message ] ] >>

\* set_commit_status(repo, sha, state, description): the POST it makes, if
\* any.
SetCommitStatus(sha, state, description) ==
    IF token = "" THEN << >>
    ELSE << [ url  |-> << "statuses", sha >>,
              auth |-> Bearer(token),
              json |-> [ state |-> state, description |-> description,
                         context |-> "commit-message-check" ] ] >>

\* for err in errors: print(f"::error:: {err}")
ErrorLines(errors) ==
    [ i \in 1..Len(errors) |-> Line("::error:: {err}", << errors[i] >>) ]

\* process_commits: one turn of the for loop.  An exception raised by
\* validate_commit_message is caught nowhere: the process ends with a
\* traceback and exit code 1.
ProcessCommit ==
    /\ pc = "process"
    /\ idx <= Len(commits)
    /\ LET c == commits[idx]
           r == ValidateCommitMessage(c, sub_char_limit, body_char_limit,
                                      check_blank_line)
       IN  /\ commit' = c
           /\ lines' = SplitLines(c.message)
           /\ result' = r
           /\ IF r.raised # ""
              THEN /\ exit_code' = 1
                   /\ pc' = "done"
                   /\ UNCHANGED << idx, failed_count, stdout, comment_calls,
                                   status_calls, posts >>
              ELSE IF r.errors # << >>
              THEN /\ stdout' = stdout
                        \o << Line("::group:: [U+274C] Errors in commit {sha}",
                                   << r.sha >>) >>
                        \o ErrorLines(r.errors)
                        \o << Line("::endgroup::", << >>) >>
                   /\ failed_count' = failed_count + 1
                   /\ comment_calls' = Append(comment_calls,
                        [ sha |-> r.sha, message |-> r.errors ])
                   /\ status_calls' = Append(status_calls,
                        [ sha |-> r.sha, state |-> "failure",
                          description |-> "Commit message validation failed" ])
                   /\ posts' = posts
                        \o AddCommitComment(r.sha, r.errors)
                        \o SetCommitStatus(r.sha, "failure",
                                           "Commit message validation failed")
                   /\ idx' = idx + 1
                   /\ UNCHANGED << pc, exit_code >>
              ELSE /\ stdout' = Append(stdout,
                        Line("[U+2705] Commit {sha} passed all checks.", << r.sha >>))
                   /\ status_calls' = Append(status_calls,
                        [ sha |-> r.sha, state |-> "success",
                          description |-> "Commit message validation passed" ])
                   /\ posts' = posts
                        \o SetCommitStatus(r.sha, "success",
                                           "Commit message validation passed")
                   /\ idx' = idx + 1
                   /\ UNCHANGED << pc, exit_code, failed_count, comment_calls >>
    /\ UNCHANGED << sub_char_limit, body_char_limit, check_blank_line, token,
                    summary_path, pr_commits, gets, resps, commits, summary,
                    returned >>

\* process_commits: the loop is over, return failed_count.
ProcessReturn ==
    /\ pc = "process"
    /\ idx > Len(commits)
    /\ returned' = failed_count
    /\ pc' = "summary"
    /\ UNCHANGED << commit, sub_char_limit, body_char_limit, check_blank_line,
                    lines, result, token, summary_path, pr_commits, gets, resps,
                    commits, idx, failed_count, stdout, comment_calls,
                    status_calls, posts, summary, exit_code >>

\* main: the step summary, when GITHUB_STEP_SUMMARY is set, and
\* sys.exit(1 if failed_count else 0).
MainExit ==
    /\ pc = "summary"
    /\ summary' =
         IF summary_path = "" THEN summary
         ELSE summary
              \o << Line("### Commit Validation Summary", << >>) >>
              \o (IF returned # 0
                  THEN << Line("- [U+274C] {failed_count} commit(s) failed validation.",
                               << returned >>) >>
                  ELSE << Line("- [U+2705] All commits passed validation.", << >>) >>)
    /\ exit_code' = IF returned # 0 THEN 1 ELSE 0
    /\ pc' = "done"
    /\ UNCHANGED << commit, sub_char_limit, body_char_limit, check_blank_line,
                    lines, result, token, summary_path, pr_commits, gets, resps,
                    commits, idx, failed_count, stdout, comment_calls,
                    status_calls, posts, returned >>

Next ==
    \/ FetchFirstGet
    \/ FetchNoToken
    \/ FetchSecondGet
    \/ FetchFail
    \/ FetchReturn
    \/ ProcessCommit
    \/ ProcessReturn
    \/ MainExit

Spec == Init /\ [][Next]_vars

----------------------------------------------------------------------------
(* The properties checked.                                                 *)

\* validate_commit_message was called, and it returned.
Called == result # NotCalled
Returned == Called /\ result.raised = ""

ErrorSet == { result.errors[i] : i \in 1..Len(result.errors) }

\* A line of blanks only (the empty line is one).
IsBlank(line) == \A i \in 1..Len(line) : IsSpace(line[i])

\* The position of an error's type in the enumeration of the error types.
Rank(e) ==
    CASE e.fmt = "Commit message is missing subject!" -> 1
      [] e.fmt = "Subject exceeds {sub_char_limit} characters!" -> 2
      [] e.fmt = "Subject and body must be separated by a blank line" -> 3
      [] e.fmt = "Body and Signed-off-by must be separated by a blank line" -> 4
      [] e.fmt = "Commit message is missing a body!" -> 5
      [] e.fmt = "Line exceeds {body_char_limit} characters: {line}" -> 6
      [] OTHER -> 0

IsLineError(e) == Rank(e) = 6
IsSeparatorError(e) == Rank(e) \in { 3, 4 }

\* C1: validate_commit_message never raises, whatever the message and the
\* configuration; for the empty message it returns a list that holds the
\* missing-subject and the missing-body finding and no separator finding.
C1_NeverRaises ==
    Called =>
        /\ result.raised = ""
        /\ lines = << >> =>
             /\ MissingSubject \in ErrorSet
             /\ MissingBody \in ErrorSet
             /\ \A e \in ErrorSet : ~IsSeparatorError(e)

\* C2: the errors returned follow the order of the error types (missing
\* subject, subject exceeds, subject/body separation, body/sign-off
\* separation, missing body, line exceeds), and each of the first five types
\* occurs at most once.
C2_ErrorOrder ==
    Returned =>
        \A i, j \in 1..Len(result.errors) :
            i < j =>
                /\ Rank(result.errors[i]) >= 1
                /\ Rank(result.errors[i]) <= Rank(result.errors[j])
                /\ Rank(result.errors[i]) = Rank(result.errors[j])
                     => Rank(result.errors[i]) = 6

\* A message that was returned with four types of error, two line errors
\* among them.
C2_Witness ==
    /\ Returned
    /\ Len(result.errors) >= 5
    /\ { Rank(e) : e \in ErrorSet } = { 2, 3, 4, 6 }

\* C3: the subject/body-separation error is returned exactly when
\* check-blank-line is true, the message has more than one line, line 1 is
\* not blank, the subject is not empty and the body is not empty.
C3_SeparatorIff ==
    Returned =>
        ( SubBodySeparation \in ErrorSet
          <=> /\ Lower(check_blank_line) = TrueStr
              /\ Len(lines) > 1
              /\ ~IsBlank(lines[2])
              /\ lines[1] # << >>
              /\ Body(lines, check_blank_line) # << >> )

\* The separation error was returned for a subject that is blank but not
\* empty.
C3_Witness ==
    /\ Returned
    /\ SubBodySeparation \in ErrorSet
    /\ lines[1] = << " " >>

\* The commit of the tests: a subject longer than 50 characters, a body line
\* right after it, a blank line and a Signed-off-by line.
LongSubjectCase ==
    /\ Len(lines) = 4
    /\ Len(lines[1]) > 50
    /\ ~IsBlank(lines[2])
    /\ ~StartsWith(Lower(lines[2]), SignedOffBy)
    /\ IsBlank(lines[3])
    /\ StartsWith(lines[4], << "S" >> \o Tail(SignedOffBy))

\* C4: with check_blank_line "true" and the limits 50 and 72, the errors of
\* such a commit hold "Subject exceeds 50 characters!" and "Commit subject
\* and description must be separated by a blank line".
C4_TestStrings ==
    ( /\ Returned
      /\ check_blank_line = TrueStr
      /\ sub_char_limit = 50
      /\ body_char_limit = 72
      /\ LongSubjectCase )
    => /\ Err("Subject exceeds {sub_char_limit} characters!",
              << << "5", "0" >> >>) \in ErrorSet
       /\ Err("Commit subject and description must be separated by a blank line",
              << >>) \in ErrorSet

\* lines[:-1]
AllButLast(ls) == SubSeq(ls, 1, Len(ls) - 1)

\* C5: when the last line holds "signed-off-by" (in any case), it adds no
\* element to the body, and no element of the body begins with
\* "signed-off-by" (in any case).
C5_TrailerNotInBody ==
    LET body == Body(lines, check_blank_line)
    IN  ( /\ Returned
          /\ Contains(Lower(lines[Len(lines)]), SignedOffBy) )
        => /\ body = BodyFilter(SliceFrom(AllButLast(lines), 1))
           /\ \A i \in 1..Len(body) :
                ~StartsWith(Lower(body[i]), SignedOffBy)

\* A well-formed message: a subject that is not blank and within the limit,
\* a blank line, one or more body lines that are not blank, do not start
\* with "signed-off-by" and are within the limit once trimmed, a blank line,
\* and a last line that starts with "Signed-off-by".
WellFormed(ls, sub_limit, body_limit) ==
    /\ Len(ls) >= 5
    /\ ~IsBlank(ls[1])
    /\ Len(ls[1]) <= sub_limit
    /\ IsBlank(ls[2])
    /\ \A i \in 3..(Len(ls) - 2) :
         /\ ~IsBlank(ls[i])
         /\ ~StartsWith(Lower(ls[i]), SignedOffBy)
         /\ Len(Strip(ls[i])) <= body_limit
    /\ IsBlank(ls[Len(ls) - 1])
    /\ StartsWith(ls[Len(ls)], << "S" >> \o Tail(SignedOffBy))

\* C6: with check-blank-line true, a well-formed message is returned with
\* the commit's sha and no error.
C6_WellFormedPasses ==
    ( /\ Called
      /\ Lower(check_blank_line) = TrueStr
      /\ WellFormed(lines, sub_char_limit, body_char_limit) )
    => /\ result.raised = ""
       /\ result.sha = commit.sha
       /\ result.errors = << >>

\* A well-formed message was validated under the small limits.
C6_Witness ==
    /\ Called
    /\ Lower(check_blank_line) = TrueStr
    /\ WellFormed(lines, sub_char_limit, body_char_limit)
    /\ body_char_limit = SmallLimit
    /\ result.sha \in { "abc123", "def456" }

\* The body lines longer than the limit, in the order of the body.
Offending(body, limit) == SelectSeq(body, LAMBDA l : Len(l) > limit)

FalseStr == << "f", "a", "l", "s", "e" >>

NotSeparatorError(e) == ~IsSeparatorError(e)

\* C10: when the validator returns under both settings of check-blank-line,
\* the body is the same under both, the errors under false are the errors
\* under true without the two separation errors, and the missing-body error
\* comes with no separation error and no line error.
C10_BodyIndependent ==
    LET onTrue  == ValidateLines(commit.sha, lines, sub_char_limit,
                                 body_char_limit, TrueStr)
        onFalse == ValidateLines(commit.sha, lines, sub_char_limit,
                                 body_char_limit, FalseStr)
        other   == IF Lower(check_blank_line) = TrueStr THEN onFalse
                                                        ELSE onTrue
    IN  ( Returned /\ other.raised = "" ) =>
            /\ Body(lines, TrueStr) = Body(lines, FalseStr)
            /\ IF Lower(check_blank_line) = TrueStr
               THEN other.errors = SelectSeq(result.errors, NotSeparatorError)
               ELSE result.errors = SelectSeq(other.errors, NotSeparatorError)
            /\ MissingBody \in ErrorSet =>
                 \A e \in ErrorSet : ~IsSeparatorError(e) /\ ~IsLineError(e)

\* The validator returned under true with a separation error, for a message
\* whose line 1 is blank and whose body starts at line 2.
C10_Witness ==
    /\ Returned
    /\ Lower(check_blank_line) = TrueStr
    /\ BodySignSeparation \in ErrorSet
    /\ Len(lines) >= 4
    /\ IsBlank(lines[2])
    /\ Body(lines, TrueStr) # << >>

----------------------------------------------------------------------------
(* main                                                                    *)

\* fetch_commits returned the commits to main.
FetchReturned ==
    /\ pc \in { "process", "summary", "done" }
    /\ resps # << >>
    /\ LastStatus = 200

\* C9: the first GET carries no Authorization header; a second GET, with
\* the token as Bearer token, is made only after a first status of 401, 403
\* or 404 and with the token set; there are at most two GETs, and one when
\* the first status is 200; the commits are returned only after a last
\* status of 200, and in the other cases the process ends with exit code 1
\* and no commits returned.
C9_FetchFallback ==
    /\ Len(gets) <= 2
    /\ Len(resps) = Len(gets)
    /\ gets # << >> => gets[1].Authorization = << >>
    /\ Len(gets) = 2 =>
         /\ resps[1] \in { 401, 403, 404 }
         /\ token # ""
         /\ gets[2].Authorization = << "Bearer", token >>
    /\ (resps # << >> /\ resps[1] = 200) => Len(gets) = 1
    /\ pc = "fetch_retry" =>
         Len(gets) = 1 /\ resps[1] \in { 401, 403, 404 }
    /\ pc = "fetch_check" =>
         \/ Len(gets) = 1 /\ resps[1] \notin { 401, 403, 404 }
         \/ Len(gets) = 2
    /\ pc \in { "process", "summary" } =>
         LastStatus = 200 /\ commits = pr_commits
    /\ (pc = "done" /\ ~FetchReturned) =>
         /\ gets # << >>
         /\ \/ LastStatus \in { 401, 403, 404 } /\ token = "" /\ Len(gets) = 1
            \/ LastStatus # 200 /\ (Len(gets) = 2 \/ LastStatus = 500)
         /\ exit_code = 1
         /\ commits = << >>
         /\ idx = 1
         /\ status_calls = << >>
         /\ returned = NoValue

\* The second GET, made with the token, was answered with 200 and the
\* commits were returned.
C9_Witness ==
    /\ Len(gets) = 2
    /\ pc = "process"
    /\ commits # << >>

\* The number of elements of a sequence that satisfy a test.
Count(seq, Test(_)) == Len(SelectSeq(seq, Test))

\* C8: process_commits returns the number of commits whose error list is
\* not empty; every commit is reported once, in list order, with status
\* "failure" and a comment when its error list is not empty and with status
\* "success", the pass line and no comment otherwise; main exits with code 1
\* exactly when the count returned is greater than 0.
C8_ProcessCommits ==
    ( pc = "done" /\ FetchReturned ) =>
        LET out == [ i \in 1..Len(commits) |->
                       ValidateCommitMessage(commits[i], sub_char_limit,
                                             body_char_limit,
                                             check_blank_line) ]
            failing == { i \in 1..Len(commits) : out[i].errors # << >> }
            IsPassLine(l) == l.fmt = "[U+2705] Commit {sha} passed all checks."
            IsFailure(c) == c.state = "failure"
        IN  /\ returned = Cardinality(failing)
            /\ Len(status_calls) = Len(commits)
            /\ \A i \in 1..Len(commits) :
                 /\ status_calls[i].sha = commits[i].sha
                 /\ status_calls[i].state =
                      IF i \in failing THEN "failure" ELSE "success"
            /\ Len(comment_calls) = Cardinality(failing)
            /\ \A k \in 1..Len(comment_calls) :
                 \E i \in failing :
                    /\ comment_calls[k].sha = commits[i].sha
                    /\ comment_calls[k].message = out[i].errors
                    /\ Cardinality({ j \in failing : j <= i }) = k
            /\ Count(stdout, IsPassLine)
                 = Len(commits) - Cardinality(failing)
            /\ exit_code = 1 <=> returned > 0
====
